---- MODULE Spec2Model ----
(***************************************************************************)
(* AdminDashboard (src/src/components/AdminDashboard.tsx): the waitlist    *)
(* fetch lifecycle (entries / loading / error), the derived stats and the  *)
(* conditional render, as a state machine.                                 *)
(***************************************************************************)
EXTENDS Integers, Sequences, FiniteSets, TLC

\* ---------------------------------------------------------------- bounds
MaxLen == 2        \* longest data array a response carries
MaxFetches == 3    \* fetchWaitlist invocations explored (mount included)

\* ------------------------------------------------------------- JS values
JSNull == [t |-> "null"]
JSUndefined == [t |-> "undefined"]
JSString(s) == [t |-> "string", s |-> s]
JSArray(a) == [t |-> "array", a |-> a]
JSObject(d) == [t |-> "object", data |-> d]

\* JavaScript truthiness, as used by `||` (line 32) and `&&` (line 125).
Truthy(v) ==
    CASE v.t = "null" -> FALSE
      [] v.t = "undefined" -> FALSE
      [] v.t = "string" -> v.s # ""
      [] OTHER -> TRUE

\* a || b
OrElse(a, b) == IF Truthy(a) THEN a ELSE b

\* --------------------------------------------------------- WaitlistEntry
Roles == {"event-planner", "vendor", "caterer"}

WaitlistEntry == [id : 1..MaxLen, role : Roles]

\* Data arrays the server can return: at most MaxLen entries of any roles, the
\* ids unique (here: numbered in server order).
EntrySeqs ==
    {s \in UNION {[1..n -> WaitlistEntry] : n \in 0..MaxLen} :
        \A i \in 1..Len(s) : s[i].id = i}

\* Values response.json() can resolve to: the JSON value null, an object
\* without a data field, an object whose data is null, an object whose data is
\* an array of entries.
Bodies ==
    {JSNull, JSObject(JSUndefined), JSObject(JSNull)}
        \cup {JSObject(JSArray(s)) : s \in EntrySeqs}

\* ------------------------------------------------------------ exceptions
Error(m) == [message |-> JSString(m)]

NetworkError == Error("Failed to fetch")                  \* fetch() rejects
HttpError == Error("Failed to fetch waitlist")            \* line 28
SyntaxError == Error("Unexpected token < in JSON")        \* response.json() rejects
NullBodyError == Error("Cannot read properties of null")  \* data.data, data = null

\* What the environment hands back to an awaiting call.
\*   kind "reject"   : the awaited promise rejects with err
\*   kind "response" : fetch() resolves with a Response whose ok flag is ok
\*   kind "json"     : response.json() resolves with body
Rejected(e) == [kind |-> "reject", err |-> e]
Response(ok) == [kind |-> "response", ok |-> ok]
Parsed(b) == [kind |-> "json", body |-> b]
NoResult == [kind |-> "none"]

VARIABLES
    entries,    \* useState<WaitlistEntry[]>([])          line 16
    loading,    \* useState(true)                         line 17
    error,      \* useState<string | null>(null)          line 18
    mounted,    \* the mount effect (line 41) has run
    inflight,   \* fetchWaitlist calls suspended at an await: [id, pc,
                \* hadError (error was set when invoked), overlapped (another
                \* call was in flight during this one)]
    issued,     \* GET requests sent so far
    clicks,     \* Refresh / Try Again activations so far
    escaped,    \* an exception left fetchWaitlist (its promise rejected)
    last        \* the step just taken: [op, call, res, caught]

vars == <<entries, loading, error, mounted, inflight, issued, clicks, escaped, last>>

State == [entries |-> entries, loading |-> loading, error |-> error]

\* ------------------------------------------------------------ fetchWaitlist

\* Mutant: setError(null) is missing from the prefix.
fetchWaitlistStartKeepsError(st) == [st EXCEPT !.loading = TRUE]

\* Mutant: the prefix also resets the list.
fetchWaitlistStartClearsEntries(st) ==
    [st EXCEPT !.loading = TRUE, !.error = JSNull, !.entries = <<>>]

\* Lines 21-22: the synchronous prefix, up to the first await.
fetchWaitlistStart(st) == [st EXCEPT !.loading = TRUE, !.error = JSNull]

\* Line 25: each invocation sends this many GET requests.
RequestsPerCall == 1

\* Mutant: a successful response also clears the error.
tryBlockClearsError(st, res) ==
    CASE res.kind = "reject" ->
            [st |-> st, threw |-> TRUE, err |-> res.err]
      [] res.kind = "response" /\ ~res.ok ->
            [st |-> st, threw |-> TRUE, err |-> HttpError]
      [] res.kind = "json" /\ res.body.t = "null" ->
            [st |-> st, threw |-> TRUE, err |-> NullBodyError]
      [] OTHER ->
            [st |-> [st EXCEPT !.entries =
                        OrElse(res.body.data, JSArray(<<>>)).a,
                     !.error = JSNull],
             threw |-> FALSE, err |-> NoResult]

\* Mutant: the response's data is appended to the list instead of replacing it.
tryBlockAppends(st, res) ==
    CASE res.kind = "reject" ->
            [st |-> st, threw |-> TRUE, err |-> res.err]
      [] res.kind = "response" /\ ~res.ok ->
            [st |-> st, threw |-> TRUE, err |-> HttpError]
      [] res.kind = "json" /\ res.body.t = "null" ->
            [st |-> st, threw |-> TRUE, err |-> NullBodyError]
      [] OTHER ->
            [st |-> [st EXCEPT !.entries =
                        @ \o OrElse(res.body.data, JSArray(<<>>)).a],
             threw |-> FALSE, err |-> NoResult]

\* Lines 25-32: the try block resumed with the awaited result res. Yields the
\* state it leaves and, when it throws, the exception.
tryBlock(st, res) ==
    CASE res.kind = "reject" ->
            [st |-> st, threw |-> TRUE, err |-> res.err]
      [] res.kind = "response" /\ ~res.ok ->
            [st |-> st, threw |-> TRUE, err |-> HttpError]
      [] res.kind = "json" /\ res.body.t = "null" ->
            [st |-> st, threw |-> TRUE, err |-> NullBodyError]
      [] OTHER ->
            [st |-> [st EXCEPT !.entries =
                        OrElse(res.body.data, JSArray(<<>>)).a],
             threw |-> FALSE, err |-> NoResult]

\* Mutant: the catch clause takes only the exception thrown at line 28.
CatchesOnlyHttp(err) == err = HttpError

\* Line 33: catch (err: any) takes every exception.
Catches(err) == TRUE

\* Mutant: the catch block also resets the list.
catchBlockClearsEntries(st, err) ==
    [st EXCEPT !.error = err.message, !.entries = <<>>]

\* Lines 34-35.
catchBlock(st, err) == [st EXCEPT !.error = err.message]

\* Mutant: setLoading(false) is missing from the finally block.
finallyBlockKeepsLoading(st) == st

\* Line 37.
finallyBlock(st) == [st EXCEPT !.loading = FALSE]

\* Mutant: setLoading(false) closes the try block instead of sitting in a
\* finally block, so the catch path leaves loading set.
settleSkipsFinallyOnCatch(st, res) ==
    LET t == tryBlock(st, res)
        caught == t.threw /\ Catches(t.err)
    IN [st |-> IF caught THEN catchBlock(t.st, t.err) ELSE finallyBlock(t.st),
        caught |-> caught,
        rejected |-> t.threw /\ ~caught]

\* Lines 24-38 from the resumption that ends the call: try, catch, finally.
settle(st, res) ==
    LET t == tryBlock(st, res)
        caught == t.threw /\ Catches(t.err)
    IN [st |-> finallyBlock(IF caught THEN catchBlock(t.st, t.err) ELSE t.st),
        caught |-> caught,
        rejected |-> t.threw /\ ~caught]

\* -------------------------------------------------------------- stats
RECURSIVE filter(_, _)
filter(s, role) ==
    IF s = <<>> THEN <<>>
    ELSE IF Head(s).role = role
         THEN <<Head(s)>> \o filter(Tail(s), role)
         ELSE filter(Tail(s), role)

\* Mutant: vendors counted the way the row label is chosen (lines 185-189).
statsVendorsByLabel(es) ==
    [total |-> Len(es),
     eventPlanners |-> Len(filter(es, "event-planner")),
     vendors |-> Len(es) - Len(filter(es, "event-planner"))]

\* Lines 45-49.
stats(es) ==
    [total |-> Len(es),
     eventPlanners |-> Len(filter(es, "event-planner")),
     vendors |-> Len(filter(es, "vendor"))]

\* -------------------------------------------------------------- render
\* Mutant: three exclusive views, the error banner replacing stats and table.
renderExclusive(st) ==
    IF st.loading
    THEN {"spinner"}
    ELSE IF Truthy(st.error)
    THEN {"errorBanner", "Try Again"}
    ELSE {"stats", "tableCard", "Refresh"}
            \cup (IF Len(st.entries) = 0 THEN {"emptyState"} ELSE {"table"})

\* Mutant: no early return while loading, the Refresh button stays rendered.
renderRefreshWhileLoading(st) ==
    (IF st.loading THEN {"spinner"} ELSE {})
        \cup {"stats", "tableCard", "Refresh"}
        \cup (IF Truthy(st.error) THEN {"errorBanner", "Try Again"} ELSE {})
        \cup (IF Len(st.entries) = 0 THEN {"emptyState"} ELSE {"table"})

\* Lines 61-204: the elements the component returns for a state.
render(st) ==
    IF st.loading
    THEN {"spinner"}
    ELSE {"stats", "tableCard", "Refresh"}
            \cup (IF Truthy(st.error) THEN {"errorBanner", "Try Again"} ELSE {})
            \cup (IF Len(st.entries) = 0 THEN {"emptyState"} ELSE {"table"})

\* Lines 129-136 and 145-147: the buttons wired to fetchWaitlist.
Buttons == {"Refresh", "Try Again"}

\* Mutant: the label follows the role the way the vendors count does.
roleLabelStrict(e) ==
    CASE e.role = "event-planner" -> "Event Planner"
      [] e.role = "vendor" -> "Vendor"
      [] OTHER -> "Other"

\* Lines 170-191: the role label of a table row.
roleLabel(e) == IF e.role = "event-planner" THEN "Event Planner" ELSE "Vendor"

\* Lines 170-196: entries.map, one table row per entry, in order.
tableRows(es) == [i \in 1..Len(es) |-> [key |-> es[i].id, label |-> roleLabel(es[i])]]

\* ------------------------------------------------------------- machine
Init ==
    /\ entries = <<>>
    /\ loading = TRUE
    /\ error = JSNull
    /\ mounted = FALSE
    /\ inflight = {}
    /\ issued = 0
    /\ clicks = 0
    /\ escaped = FALSE
    /\ last = [op |-> "init", call |-> NoResult, res |-> NoResult, caught |-> FALSE]

\* Mutant: the effect has no dependency array and runs again after a render.
MountEffectEveryRender == TRUE

\* Lines 41-43: useEffect(..., []) runs its effect once, after the first commit.
MountEffectPending == ~mounted

\* fetchWaitlist() invoked: lines 20-25 up to the suspension at fetch().
Invoke(op) ==
    /\ issued < MaxFetches
    /\ LET n == fetchWaitlistStart(State)
           c == [id |-> issued + 1, pc |-> "fetch",
                 hadError |-> Truthy(error), overlapped |-> inflight # {}]
       IN /\ entries' = n.entries
          /\ loading' = n.loading
          /\ error' = n.error
          /\ inflight' = {[d EXCEPT !.overlapped = TRUE] : d \in inflight} \cup {c}
          /\ issued' = issued + RequestsPerCall
          /\ last' = [op |-> op, call |-> c, res |-> NoResult, caught |-> FALSE]
    /\ UNCHANGED escaped

Mount ==
    /\ MountEffectPending
    /\ mounted' = TRUE
    /\ Invoke("mount")
    /\ UNCHANGED clicks

\* The user activates a button the current render shows.
Click(b) ==
    /\ mounted
    /\ b \in render(State)
    /\ Invoke("click")
    /\ clicks' = clicks + 1
    /\ UNCHANGED mounted

\* fetchWaitlist invoked again while an earlier call is still suspended: the
\* function has no guard of its own (lines 20-22).
ConcurrentCall(b) ==
    /\ mounted
    /\ inflight # {}
    /\ Invoke("click")
    /\ clicks' = clicks + 1
    /\ UNCHANGED mounted

\* The call c resumes with res and runs to its end.
Settle(c, res) ==
    /\ LET r == settle(State, res)
       IN /\ entries' = r.st.entries
          /\ loading' = r.st.loading
          /\ error' = r.st.error
          /\ escaped' = (escaped \/ r.rejected)
          /\ last' = [op |-> "settle", call |-> c, res |-> res, caught |-> r.caught]
    /\ inflight' = inflight \ {c}
    /\ UNCHANGED <<mounted, issued, clicks>>

\* Line 25: fetch() rejects (network / transport failure).
FetchRejects(c) ==
    /\ c.pc = "fetch"
    /\ Settle(c, Rejected(NetworkError))

\* Lines 25-29: fetch() resolves with a non-2xx response.
FetchRespondsNotOk(c) ==
    /\ c.pc = "fetch"
    /\ Settle(c, Response(FALSE))

\* Lines 25-31: fetch() resolves with a 2xx response; the call suspends again
\* at response.json().
FetchRespondsOk(c) ==
    /\ c.pc = "fetch"
    /\ inflight' = (inflight \ {c}) \cup {[c EXCEPT !.pc = "json"]}
    /\ last' = [op |-> "await", call |-> c, res |-> Response(TRUE), caught |-> FALSE]
    /\ UNCHANGED <<entries, loading, error, mounted, issued, clicks, escaped>>

\* Line 31: response.json() rejects (malformed body).
JsonRejects(c) ==
    /\ c.pc = "json"
    /\ Settle(c, Rejected(SyntaxError))

\* Lines 31-32: response.json() resolves with body.
JsonResolves(c, body) ==
    /\ c.pc = "json"
    /\ Settle(c, Parsed(body))

\* The component driven through its rendered interface.
Next ==
    \/ Mount
    \/ \E b \in Buttons : Click(b)
    \/ \E c \in inflight : FetchRejects(c)
    \/ \E c \in inflight : FetchRespondsNotOk(c)
    \/ \E c \in inflight : FetchRespondsOk(c)
    \/ \E c \in inflight : JsonRejects(c)
    \/ \E c \in inflight : \E body \in Bodies : JsonResolves(c, body)

Spec == Init /\ [][Next]_vars

\* The same, with fetchWaitlist also invoked while a call is in flight.
NextOverlap ==
    \/ Next
    \/ \E b \in Buttons : ConcurrentCall(b)

SpecOverlap == Init /\ [][NextOverlap]_vars

\* Lines 25 and 31: the call c resumes from the await it is suspended at.
Resolves(c) ==
    \/ FetchRejects(c)
    \/ FetchRespondsNotOk(c)
    \/ FetchRespondsOk(c)
    \/ JsonRejects(c)
    \/ \E body \in Bodies : JsonResolves(c, body)

\* The mount effect runs once the first render is committed, and every promise
\* awaited by a call is eventually fulfilled or rejected.
Fairness ==
    /\ WF_vars(Mount)
    /\ \A i \in 1..MaxFetches :
          WF_vars(\E c \in inflight : c.id = i /\ Resolves(c))

\* Spec with every issued request resolving eventually.
SpecFair == Init /\ [][Next]_vars /\ Fairness

\* ================================================================ claims

\* The three failure kinds of a fetch: transport failure, non-2xx response,
\* malformed JSON body.
FailureResult(res) ==
    \/ res.kind = "reject"
    \/ res.kind = "response" /\ ~res.ok

\* A 2xx response whose body parsed.
ParsedResult(res) == res.kind = "json"

\* A 2xx response whose body parsed to an object.
SuccessResult(res) == res.kind = "json" /\ res.body.t = "object"

\* The sequence a parsed body carries: its data array, or the empty sequence
\* when there is none.
Payload(body) ==
    IF body.t = "object" /\ body.data.t = "array" THEN body.data.a ELSE <<>>

\* C1: a call that completes in failure (transport failure, non-2xx, malformed
\* body) leaves entries exactly as they were just before the completion.
C1_FailureKeepsEntries ==
    [][(last'.op = "settle" /\ FailureResult(last'.res)) => entries' = entries]_vars

\* C1 witness: a failure has just completed and previously loaded entries are
\* still there.
C1_Witness ==
    /\ last.op = "settle"
    /\ FailureResult(last.res)
    /\ entries # <<>>
    /\ Truthy(error)

\* C2 as stated: every completion with a 2xx response and a parseable body
\* sets entries to the body's data, or to the empty sequence when there is no
\* data, and then shows the empty-state placeholder instead of the table.
C2_Original ==
    (last.op = "settle" /\ ParsedResult(last.res)) =>
        /\ entries = Payload(last.res.body)
        /\ (entries = <<>> /\ ~loading) =>
              ("emptyState" \in render(State) /\ "table" \notin render(State))

\* C2 amended: every completion with a 2xx response whose body parses to an
\* object (not the JSON value null) sets entries to the body's data in server
\* order, or to the empty sequence when data is absent or null; in the latter
\* case, loading being false, the empty-state placeholder is rendered and the
\* table is not.
C2_SuccessReplacesEntries ==
    (last.op = "settle" /\ SuccessResult(last.res)) =>
        /\ entries = Payload(last.res.body)
        /\ ~last.caught
        /\ (last.res.body.data.t \in {"null", "undefined"} /\ ~loading) =>
              /\ entries = <<>>
              /\ "emptyState" \in render(State)
              /\ "table" \notin render(State)

\* C2 witness: a success without data has just replaced a non-empty list; the
\* refresh that led to it was clicked on the table view.
C2_Witness ==
    /\ last.op = "settle"
    /\ SuccessResult(last.res)
    /\ last.res.body.data.t = "null"
    /\ last.call.id > 1
    /\ entries = <<>>
    /\ ~loading
    /\ "emptyState" \in render(State)

\* The message the failure res is reported with: the exception's message, or
\* the fixed string for a non-2xx response.
FailureMessage(res) ==
    IF res.kind = "reject" THEN res.err.message
    ELSE JSString("Failed to fetch waitlist")

\* C3: after a completion in failure of any of the three kinds, error is a
\* non-null, non-empty message string (the exception's message, or the fixed
\* string), and no exception has left fetchWaitlist.
C3_FailureSetsError ==
    /\ ~escaped
    /\ (last.op = "settle" /\ FailureResult(last.res)) =>
          /\ last.caught
          /\ error.t = "string"
          /\ error.s # ""
          /\ error = FailureMessage(last.res)

\* C3 witness: a malformed body has just been reported.
C3_Witness ==
    /\ last.op = "settle"
    /\ last.res = Rejected(SyntaxError)
    /\ error = SyntaxError.message
    /\ ~escaped

\* C4: every completion of a call, success or failure, leaves loading false.
C4_CompletionClearsLoading ==
    last.op = "settle" => ~loading

\* C4 witness: a non-2xx response has just completed with loading false.
C4_Witness ==
    /\ last.op = "settle"
    /\ last.res = Response(FALSE)
    /\ ~loading

\* C5: the number of GET requests issued is the mount fetch plus one per
\* Refresh / Try Again activation: none before the mount effect, exactly one
\* once it has run and before any activation, and none issued by a completion
\* (no automatic retry); every call made so far sent exactly one request.
C5_OneRequestPerTrigger ==
    /\ issued = (IF mounted THEN 1 ELSE 0) + clicks
    /\ ~mounted => (clicks = 0 /\ inflight = {})
    /\ \A c \in inflight : c.id \in 1..issued
    /\ last.op \in {"settle", "await"} => last.call.id \in 1..issued

\* C5 witness: a failure has completed after one user activation; two requests
\* have been issued and nothing is in flight.
C5_Witness ==
    /\ last.op = "settle"
    /\ FailureResult(last.res)
    /\ clicks = 1
    /\ issued = 2
    /\ inflight = {}

\* C6: activating Refresh or Try Again while error is set clears error, sets
\* loading and issues one new request in that step; when that request then
\* succeeds, entries is the new response's data and error is still null.
C6_RetryAfterError ==
    [][/\ (Truthy(error) /\ last'.op = "click") =>
            /\ error' = JSNull
            /\ loading'
            /\ issued' = issued + 1
            /\ last'.call \in inflight'
            /\ last'.call.hadError
       /\ (last'.op = "settle" /\ last'.call.hadError /\ SuccessResult(last'.res)) =>
            /\ entries' = Payload(last'.res.body)
            /\ error' = JSNull]_vars

\* C6 witness: the retry of a failed fetch has succeeded with a non-empty list.
C6_Witness ==
    /\ last.op = "settle"
    /\ last.call.hadError
    /\ SuccessResult(last.res)
    /\ entries # <<>>
    /\ entries = Payload(last.res.body)
    /\ error = JSNull

\* The positions of es whose role is one of roles.
WithRole(es, roles) == {i \in 1..Len(es) : es[i].role \in roles}

\* C7: total is the number of entries, eventPlanners and vendors the numbers
\* of entries with those roles; an entry of any other role counts in total only,
\* so eventPlanners + vendors <= total, with equality exactly when every role
\* is one of the two.
C7_StatsCounts ==
    LET s == stats(entries)
    IN /\ s.total = Len(entries)
       /\ s.eventPlanners = Cardinality(WithRole(entries, {"event-planner"}))
       /\ s.vendors = Cardinality(WithRole(entries, {"vendor"}))
       /\ s.eventPlanners + s.vendors <= s.total
       /\ (s.eventPlanners + s.vendors = s.total) <=>
             (WithRole(entries, Roles \ {"event-planner", "vendor"}) = {})

\* C7 witness: a loaded list with a vendor and an entry of another role.
C7_Witness ==
    /\ Len(entries) = 2
    /\ stats(entries).vendors = 1
    /\ stats(entries).eventPlanners = 0
    /\ ~loading

\* C8 as stated: once two overlapping calls have both completed, the state is
\* the one the call that resolved last determines: its data with no error when
\* it succeeded, its message when it failed, loading false.
C8_Original ==
    (last.op = "settle" /\ last.call.overlapped /\ inflight = {}) =>
        /\ ~loading
        /\ SuccessResult(last.res) =>
              (entries = Payload(last.res.body) /\ error = JSNull)
        /\ FailureResult(last.res) => error = FailureMessage(last.res)

\* C8 amended: a call that overlapped another is never aborted (a call leaves
\* the set of calls in flight only by its own completion) and its completion
\* writes only its own fields: a success sets entries to its data and leaves
\* error as it is, a failure sets error to its message and leaves entries as
\* they are, both set loading false. So after both have completed entries is
\* the data of the last call to succeed and error the message of the last call
\* to fail, which need not be the call that resolved last.
C8_OverlapEachWritesItsOwn ==
    [][/\ \A c \in inflight :
            (\A d \in inflight' : d.id # c.id) =>
                (last'.op = "settle" /\ last'.call.id = c.id)
       /\ (last'.op = "settle" /\ last'.call.overlapped) =>
            /\ ~loading'
            /\ SuccessResult(last'.res) =>
                  (entries' = Payload(last'.res.body) /\ error' = error)
            /\ FailureResult(last'.res) =>
                  (entries' = entries /\ error' = FailureMessage(last'.res))]_vars

\* C8 witness: two overlapping calls have both completed, the last to resolve
\* succeeded, and the error of the other one is still set.
C8_Witness ==
    /\ last.op = "settle"
    /\ last.call.overlapped
    /\ inflight = {}
    /\ SuccessResult(last.res)
    /\ entries # <<>>
    /\ Truthy(error)
    /\ ~loading

\* C9 as stated: exactly one of three mutually exclusive views is rendered:
\* the spinner when loading, the error banner when error is set, the stats and
\* table view otherwise; banner and stats/table never together.
C9_Original ==
    LET v == render(State)
    IN /\ ("spinner" \in v) <=> loading
       /\ "errorBanner" \in v => ("stats" \notin v /\ "tableCard" \notin v)
       /\ "spinner" \in v => ("errorBanner" \notin v /\ "stats" \notin v)
       /\ ("spinner" \in v) \/ ("errorBanner" \in v) \/ ("stats" \in v)

\* C9 amended: the spinner is rendered, alone, exactly when loading is true;
\* when loading is false the stats cards and the table card (with Refresh) are
\* always rendered, and the error banner with Try Again is rendered in addition
\* exactly when error is non-null.
C9_SpinnerOrDashboard ==
    LET v == render(State)
    IN /\ loading => v = {"spinner"}
       /\ ~loading =>
            /\ {"stats", "tableCard", "Refresh"} \subseteq v
            /\ "spinner" \notin v
            /\ ("errorBanner" \in v) <=> (error # JSNull)
            /\ ("Try Again" \in v) <=> (error # JSNull)
            /\ ("table" \in v) <=> (entries # <<>>)
            /\ ("emptyState" \in v) <=> (entries = <<>>)

\* C9 witness: a refetch has failed; the banner is rendered above the stale
\* table.
C9_Witness ==
    /\ ~loading
    /\ error # JSNull
    /\ entries # <<>>
    /\ {"errorBanner", "stats", "table"} \subseteq render(State)

\* C10: entries starts empty and changes only in the completion of a
\* successful response, to exactly that response's payload: invoking a fetch
\* and a failed completion leave it unchanged, nothing edits it in place.
C10_EntriesOnlyReplaced ==
    /\ last.op = "init" => entries = <<>>
    /\ [][/\ entries' # entries =>
                /\ last'.op = "settle"
                /\ SuccessResult(last'.res)
                /\ entries' = Payload(last'.res.body)
          /\ last'.op \in {"mount", "click", "await"} => entries' = entries
          /\ (last'.op = "settle" /\ ~SuccessResult(last'.res)) => entries' = entries
         ]_vars

\* C10 witness: a fetch has just been invoked from the table view and the
\* loaded entries are still there.
C10_Witness ==
    /\ last.op = "click"
    /\ loading
    /\ entries # <<>>

\* The positions of rows that carry label.
Labelled(rows, label) == {i \in 1..Len(rows) : rows[i].label = label}

\* C11: an entry whose role is neither "event-planner" nor "vendor" gets the
\* row label "Vendor" and is left out of the vendors count; so the rows
\* labelled "Vendor" number total - eventPlanners, never fewer than vendors
\* (more when such an entry is present), and the rows labelled "Event Planner"
\* number eventPlanners.
C11_VendorLabelFallthrough ==
    LET rows == tableRows(entries)
        s == stats(entries)
        others == WithRole(entries, Roles \ {"event-planner", "vendor"})
    IN /\ Len(rows) = s.total
       /\ \A i \in others : rows[i].label = "Vendor"
       /\ Cardinality(Labelled(rows, "Vendor")) = s.total - s.eventPlanners
       /\ Cardinality(Labelled(rows, "Vendor")) = s.vendors + Cardinality(others)
       /\ Cardinality(Labelled(rows, "Event Planner")) = s.eventPlanners

\* C11 witness: the table is rendered with two rows labelled "Vendor" while
\* the vendors count is 1.
C11_Witness ==
    /\ "table" \in render(State)
    /\ Cardinality(Labelled(tableRows(entries), "Vendor")) = 2
    /\ stats(entries).vendors = 1
    /\ stats(entries).total = 2

\* C12: while loading is true neither Refresh nor Try Again is rendered, and
\* an activation sets loading; so, from mount on, a user-triggered fetch never
\* starts while the mount fetch or another one is in flight: at most one call
\* is in flight, and one is in flight exactly while loading is true.
C12_NoOverlapThroughButtons ==
    /\ loading => render(State) \cap Buttons = {}
    /\ \A b \in Buttons : ENABLED Click(b) => ~loading /\ inflight = {}
    /\ last.op = "click" => (loading /\ ~last.call.overlapped)
    /\ Cardinality(inflight) <= 1
    /\ mounted => (loading <=> inflight # {})

\* C12 witness: a second user-triggered fetch is in flight, alone, after the
\* mount fetch and the first one have completed.
C12_Witness ==
    /\ last.op = "click"
    /\ clicks = 2
    /\ loading
    /\ Cardinality(inflight) = 1
    /\ ~last.call.overlapped

\* C13: in every state between handler steps, loading true implies error
\* null, overlapping calls included: the prefix sets loading and clears error
\* together, and the completion that sets error also clears loading.
C13_LoadingImpliesNoError ==
    loading => error = JSNull

\* C13 witness: a call invoked while another is in flight and while the error
\* of a third was set; loading is true and the error is gone.
C13_Witness ==
    /\ last.op = "click"
    /\ last.call.hadError
    /\ last.call.overlapped
    /\ Cardinality(inflight) = 2
    /\ loading
    /\ error = JSNull

\* C14: when every issued request eventually resolves, every state with
\* loading true is followed by one with loading false. Nothing else ends
\* loading: only the completion of a call sets it false (no timeout), and the
\* loading view renders no button to start another call, so a request that
\* never resolves leaves it true.
C14_LoadingEnds ==
    /\ loading ~> ~loading
    /\ [][(loading /\ ~loading') => last'.op = "settle"]_vars
    /\ [](loading => render(State) \cap Buttons = {})

\* C14 witness: the mount fetch has resolved and its loading state has ended.
C14_Witness ==
    /\ mounted
    /\ issued = 1
    /\ inflight = {}
    /\ last.op = "settle"
    /\ last.call.id = 1
    /\ SuccessResult(last.res)
    /\ ~loading

====
